---------------------------- MODULE Spec2Model ----------------------------
(***************************************************************************)
(* Model of the StoryPortal/ModularPortal sonification scripts:            *)
(*   parquet_to_midi.py    get_pitch_for_unit, create_midi_from_spikes     *)
(*   midi_to_wave.py       midi_to_wav                                     *)
(*   midi_to_wave_suyee.py midi_to_wav_suyee                               *)
(*                                                                         *)
(* Number representation.  Python floats are modelled by exact integers:   *)
(*   spike times        in microseconds (1e-6 s);                          *)
(*   time_scale         in tenths (TIME_SCALE = 0.1 is 1);                 *)
(*   scaled times, note_duration, note start/end in units of 1e-7 s.       *)
(* The spike texts of the model hold dyadic values (multiples of 1/64 s),  *)
(* for which the float arithmetic of firing_rate mode truncates to the     *)
(* same integer as the exact arithmetic used here.                         *)
(***************************************************************************)
EXTENDS Integers, Sequences, FiniteSets, TLC

(***************************************************************************)
(* Configuration constants of parquet_to_midi.py                           *)
(***************************************************************************)
DEFAULT_PITCH == 60
MinPitch == 48
MaxPitch == 84
PITCH_RANGE == <<MinPitch, MaxPitch>>
MAX_UNITS == 16
OctaveBase == 48
RateCeiling == 50
CUSTOM_PITCHES == (0 :> 60) @@ (1 :> 64) @@ (2 :> 67) @@ (3 :> 72) @@ (4 :> 55) @@ (5 :> 69)

Modes == {"custom", "spread", "octaves", "firing_rate", "random", "other"}

(***************************************************************************)
(* Bounds of the model                                                     *)
(***************************************************************************)
MaxIdx == 34
MaxUnitId == 2
RngMod == 4

UnitIds == 0 .. MaxUnitId

(***************************************************************************)
(* Integer helpers                                                         *)
(***************************************************************************)
Max2(a, b) == IF a >= b THEN a ELSE b

Abs(x) == IF x < 0 THEN -x ELSE x

\* int(): truncation toward zero of the rational n/d, d > 0
Trunc(n, d) == IF n >= 0 THEN n \div d ELSE -((-n) \div d)

RECURSIVE Pow10(_)
Pow10(k) == IF k = 0 THEN 1 ELSE 10 * Pow10(k - 1)

(***************************************************************************)
(* parse_spike_times: strip("[]"), split(), float() of every token.        *)
(* A text is a sequence of one-character strings.                          *)
(***************************************************************************)
Whitespace == {" ", "\n"}

DigitVal == ("0" :> 0) @@ ("1" :> 1) @@ ("2" :> 2) @@ ("3" :> 3) @@ ("4" :> 4) @@
            ("5" :> 5) @@ ("6" :> 6) @@ ("7" :> 7) @@ ("8" :> 8) @@ ("9" :> 9)

RECURSIVE LStrip(_, _)
LStrip(s, chars) ==
    IF s # <<>> /\ Head(s) \in chars THEN LStrip(Tail(s), chars) ELSE s

RECURSIVE RStrip(_, _)
RStrip(s, chars) ==
    IF s # <<>> /\ s[Len(s)] \in chars
    THEN RStrip(SubSeq(s, 1, Len(s) - 1), chars)
    ELSE s

\* str.strip(chars)
Strip(s, chars) == RStrip(LStrip(s, chars), chars)

\* str.split(): tokens separated by runs of whitespace, no empty token
RECURSIVE SplitFrom(_, _, _)
SplitFrom(s, cur, acc) ==
    IF s = <<>>
    THEN IF cur = <<>> THEN acc ELSE Append(acc, cur)
    ELSE IF Head(s) \in Whitespace
         THEN SplitFrom(Tail(s), <<>>, IF cur = <<>> THEN acc ELSE Append(acc, cur))
         ELSE SplitFrom(Tail(s), Append(cur, Head(s)), acc)

Split(s) == SplitFrom(s, <<>>, <<>>)

RECURSIVE DigitsToNat(_, _)
DigitsToNat(ds, acc) ==
    IF ds = <<>> THEN acc ELSE DigitsToNat(Tail(ds), 10 * acc + DigitVal[Head(ds)])

\* position of the decimal point in a token, 0 when there is none
DotPos(tok) ==
    IF \E i \in 1 .. Len(tok) : tok[i] = "."
    THEN CHOOSE i \in 1 .. Len(tok) : tok[i] = "."
    ELSE 0

\* float(v) for a token digits[.digits] (at most 6 decimals), in microseconds
ParseFloat(tok) ==
    LET p == DotPos(tok)
        ip == IF p = 0 THEN tok ELSE SubSeq(tok, 1, p - 1)
        fp == IF p = 0 THEN <<>> ELSE SubSeq(tok, p + 1, Len(tok))
    IN DigitsToNat(ip, 0) * Pow10(6) + DigitsToNat(fp, 0) * Pow10(6 - Len(fp))

parse_spike_times(spike_times_str) ==
    LET cleaned == Strip(spike_times_str, {"[", "]"})
        values == Split(cleaned)
    IN [i \in 1 .. Len(values) |-> ParseFloat(values[i])]

(***************************************************************************)
(* Spike texts: numpy's textual form of a float array                      *)
(***************************************************************************)
StrEmpty == <<"[", "]">>
\* "[1.]"
StrOne == <<"[", "1", ".", "]">>
\* "[1.0 2.0]"
StrTwo == <<"[", "1", ".", "0", " ", "2", ".", "0", "]">>
\* "[0.5 0.5]"
StrSame == <<"[", "0", ".", "5", " ", "0", ".", "5", "]">>
\* "[0.015625 0.03125 ]"
StrFast == <<"[", "0", ".", "0", "1", "5", "6", "2", "5", " ",
             "0", ".", "0", "3", "1", "2", "5", " ", "]">>
\* "[0.25\n 0.296875]"
StrMid == <<"[", "0", ".", "2", "5", "\n", " ",
            "0", ".", "2", "9", "6", "8", "7", "5", "]">>

SpikeStrs == <<StrEmpty, StrOne, StrTwo, StrSame, StrFast, StrMid>>

(***************************************************************************)
(* numpy's process-wide generator.  The generator is abstracted to a       *)
(* deterministic automaton over 0 .. RngMod-1: seed() sets the state from  *)
(* the seed alone, a draw reads the state and advances it.                 *)
(***************************************************************************)
RngStates == 0 .. (RngMod - 1)

seed(s) == (3 * s + 1) % RngMod

RngStep(st) == (5 * st + 3) % RngMod

\* np.random.randint(low, high): low <= value < high
randint(low, high, st) == [value |-> low + ((7 * st + 2) % (high - low)), rng |-> RngStep(st)]

(***************************************************************************)
(* get_pitch_for_unit.  Returns the pitch and the state the call leaves    *)
(* the process-wide generator in.                                          *)
(***************************************************************************)
PitchCustom(unit_idx) ==
    IF unit_idx \in DOMAIN CUSTOM_PITCHES THEN CUSTOM_PITCHES[unit_idx] ELSE DEFAULT_PITCH

PitchSpread(unit_idx) ==
    LET min_pitch == PITCH_RANGE[1]
        max_pitch == PITCH_RANGE[2]
        den == Max2(MAX_UNITS - 1, 1)
    IN Trunc(min_pitch * den + unit_idx * (max_pitch - min_pitch), den)

PitchOctaves(unit_idx) ==
    LET octave == (unit_idx \div 12) * 12
        note_in_octave == unit_idx % 12
    IN OctaveBase + octave + note_in_octave

\* faulty variant of firing_rate mode: the clamp min(rate/50, 1.0) is missing
PitchFiringRateUnclamped(spike_times) ==
    IF Len(spike_times) > 0
    THEN LET duration == spike_times[Len(spike_times)] - spike_times[1]
             count == Len(spike_times)
         IN IF duration > 0
            THEN MinPitch + Trunc(count * Pow10(6) * (MaxPitch - MinPitch),
                                  RateCeiling * duration)
            ELSE MinPitch
    ELSE DEFAULT_PITCH

PitchFiringRate(spike_times) ==
    IF Len(spike_times) > 0
    THEN LET duration == spike_times[Len(spike_times)] - spike_times[1]
             count == Len(spike_times)
             min_pitch == PITCH_RANGE[1]
             max_pitch == PITCH_RANGE[2]
         IN IF duration > 0
            THEN \* firing_rate = count * 1e6 / duration; normalized = min(rate/50, 1)
                 IF count * Pow10(6) >= RateCeiling * duration
                 THEN min_pitch + (max_pitch - min_pitch)
                 ELSE min_pitch + Trunc(count * Pow10(6) * (max_pitch - min_pitch),
                                        RateCeiling * duration)
            ELSE min_pitch
    ELSE DEFAULT_PITCH

\* faulty variant of random mode: the generator is not seeded from unit_id
PitchRandomUnseeded(unit_id, rng0) ==
    LET draw == randint(MinPitch, MaxPitch + 1, rng0)
    IN [pitch |-> draw.value, rng |-> draw.rng]

PitchRandom(unit_id, rng0) ==
    LET seeded == seed(unit_id)
        min_pitch == PITCH_RANGE[1]
        max_pitch == PITCH_RANGE[2]
        draw == randint(min_pitch, max_pitch + 1, seeded)
    IN [pitch |-> draw.value, rng |-> draw.rng]

get_pitch_for_unit(unit_idx, unit_id, spike_times, mode, rng0) ==
    CASE mode = "custom" -> [pitch |-> PitchCustom(unit_idx), rng |-> rng0]
      [] mode = "spread" -> [pitch |-> PitchSpread(unit_idx), rng |-> rng0]
      [] mode = "octaves" -> [pitch |-> PitchOctaves(unit_idx), rng |-> rng0]
      [] mode = "firing_rate" -> [pitch |-> PitchFiringRate(spike_times), rng |-> rng0]
      [] mode = "random" -> PitchRandom(unit_id, rng0)
      [] OTHER -> [pitch |-> DEFAULT_PITCH, rng |-> rng0]


(***************************************************************************)
(* Configuration of a conversion run (create_midi_from_spikes parameters)  *)
(***************************************************************************)
NOTE_DURATION == 500000
BASE_VELOCITY == 80
ProgramCount == 128
MidiDataMax == 127

\* time_scale in tenths: TIME_SCALE = 0.1 and the parameter default 1.0
TimeScales == {1, 10}

MaxRows == 17

MaxUnitsChoices == {1, MAX_UNITS, MaxRows}

\* units_to_sonify: None, or a list of row positions
NoneSel == [isNone |-> TRUE, rows |-> <<>>]

ListSel(rows) == [isNone |-> FALSE, rows |-> rows]

Selectors == {NoneSel, ListSel(<<1, 0>>), ListSel(<<2, 0, 1>>)}

\* identifier of the unit in row i of the input table (row 1 is the first)
RowUnitId(i) == 2 * i + 1

\* input tables: n >= 1 rows, all with the spike text k, or (k = 0) with the
\* spike texts taken in turn
MakeTable(n, k) ==
    [i \in 1 .. n |->
        [unit_id |-> RowUnitId(i),
         spike_times |-> IF k = 0 THEN SpikeStrs[((i - 1) % Len(SpikeStrs)) + 1]
                                  ELSE SpikeStrs[k]]]

Tables == {MakeTable(n, k) : n \in 1 .. MaxRows, k \in 0 .. Len(SpikeStrs)}

Configs ==
    [time_scale : TimeScales, note_duration : {NOTE_DURATION},
     base_velocity : {BASE_VELOCITY}, units_to_sonify : Selectors,
     max_units : MaxUnitsChoices, pitch_mode : Modes]

(***************************************************************************)
(* State                                                                   *)
(***************************************************************************)
VARIABLES
    rng,        \* state of numpy's process-wide generator
    call,       \* the last direct call of get_pitch_for_unit, with its result
    seen,       \* per unit id: the pitches random mode has returned for it
    m_pc,       \* create_midi_from_spikes: "idle", "start", "loop", "done"
    parquet,    \* the input table
    cfg,        \* the parameters of the run
    df,         \* the rows being processed
    pm,         \* the PrettyMIDI document: sequence of instruments
    out,        \* the printed "Unit ..." lines
    midi_file,  \* what pm.write stored: <<>> (no file) or <<document>>
    m_result,   \* "none", "returned", "ValueError"
    w_pc,       \* renderer position
    variant,    \* "midi_to_wav" or "midi_to_wav_suyee"
    pcm,        \* the sample array the synthesizer returned
    calls,      \* synthesizer calls made, in order
    audio_data, \* the sample array
    warned,     \* the "No audio data generated" warning was printed
    wav_file,   \* what scipy.io.wavfile.write stored: <<>> or <<samples>>
    w_exc       \* exception leaving the renderer, "none" when there is none

pitchVars == <<rng, call, seen>>
midiVars == <<m_pc, parquet, cfg, df, pm, out, midi_file, m_result>>
wavVars == <<w_pc, variant, pcm, calls, audio_data, warned, wav_file, w_exc>>
vars == <<rng, call, seen, m_pc, parquet, cfg, df, pm, out, midi_file, m_result,
          w_pc, variant, pcm, calls, audio_data, warned, wav_file, w_exc>>

NoCall ==
    [unit_idx |-> 0, unit_id |-> 0, spike_times |-> <<>>, mode |-> "none",
     pitch |-> 0, again |-> FALSE]

IdlePitch ==
    /\ call = NoCall
    /\ seen = [u \in UnitIds |-> {}]

IdleMidi ==
    /\ m_pc = "idle"
    /\ parquet = <<>>
    /\ cfg = [time_scale |-> 10, note_duration |-> NOTE_DURATION,
              base_velocity |-> BASE_VELOCITY, units_to_sonify |-> NoneSel,
              max_units |-> MAX_UNITS, pitch_mode |-> "custom"]
    /\ df = <<>>
    /\ pm = <<>>
    /\ out = <<>>
    /\ midi_file = <<>>
    /\ m_result = "none"

IdleWav ==
    /\ w_pc = "idle"
    /\ variant = "none"
    /\ pcm = <<>>
    /\ calls = <<>>
    /\ audio_data = <<>>
    /\ warned = FALSE
    /\ wav_file = <<>>
    /\ w_exc = "none"

(***************************************************************************)
(* Direct calls of get_pitch_for_unit, any number of them in one process   *)
(***************************************************************************)
InitPitch ==
    /\ rng \in RngStates
    /\ IdlePitch
    /\ IdleMidi
    /\ IdleWav

\* The arguments of the direct calls.  A mode is called with every value of
\* the arguments it reads; the arguments it does not read take few values.
CallArgs ==
    [unit_idx : 0 .. MaxIdx, unit_id : {0}, text : {1},
     mode : {"custom", "spread", "octaves"}]
    \cup [unit_idx : {0, MaxIdx}, unit_id : {0}, text : {1}, mode : {"other"}]
    \cup [unit_idx : {0}, unit_id : {0}, text : 1 .. Len(SpikeStrs), mode : {"firing_rate"}]
    \cup [unit_idx : {0, MaxIdx}, unit_id : UnitIds, text : {1, 3}, mode : {"random"}]

GetPitchCall ==
    \E a \in CallArgs :
        LET spike_times == parse_spike_times(SpikeStrs[a.text])
            r == get_pitch_for_unit(a.unit_idx, a.unit_id, spike_times, a.mode, rng)
        IN /\ call' = [unit_idx |-> a.unit_idx, unit_id |-> a.unit_id,
                       spike_times |-> spike_times, mode |-> a.mode, pitch |-> r.pitch,
                       again |-> a.mode = "random" /\ seen[a.unit_id] # {}]
           /\ rng' = r.rng
           /\ seen' = IF a.mode = "random"
                      THEN [seen EXCEPT ![a.unit_id] = @ \cup {r.pitch}]
                      ELSE seen
           /\ UNCHANGED <<midiVars, wavVars>>

NextPitch == GetPitchCall

SpecPitch == InitPitch /\ [][NextPitch]_vars

(***************************************************************************)
(* create_midi_from_spikes                                                 *)
(***************************************************************************)
SelectorFits(sel, table) ==
    sel.isNone \/ \A i \in 1 .. Len(sel.rows) : sel.rows[i] < Len(table)

InitMidi ==
    /\ rng = 0
    /\ IdlePitch
    /\ IdleWav
    /\ m_pc = "start"
    /\ parquet \in Tables
    /\ cfg \in Configs
    /\ SelectorFits(cfg.units_to_sonify, parquet)
    /\ df = <<>>
    /\ pm = <<>>
    /\ out = <<>>
    /\ midi_file = <<>>
    /\ m_result = "none"

\* df[units_to_sonify]: the rows at the listed positions, in list order
FilterRows(table, sel) ==
    IF sel.isNone THEN table ELSE [i \in 1 .. Len(sel.rows) |-> table[sel.rows[i] + 1]]

\* df[:max_units] when len(df) > max_units
LimitRows(table, max_units) ==
    IF Len(table) > max_units THEN SubSeq(table, 1, max_units) ELSE table

\* lines 128-147: read, filter, limit, create the document
StartConversion ==
    /\ m_pc = "start"
    /\ df' = LimitRows(FilterRows(parquet, cfg.units_to_sonify), cfg.max_units)
    /\ pm' = <<>>
    /\ m_pc' = "loop"
    /\ UNCHANGED <<parquet, cfg, out, midi_file, m_result, pitchVars, wavVars>>

\* faulty variant of the time scaling: the unscaled time (time_scale 1.0) is used
ScaleTimeIgnored(t, time_scale) == t * 10

\* spike_times * time_scale, one value
ScaleTime(t, time_scale) == t * time_scale

MakeNote(base_velocity, pitch, spike_time, note_duration) ==
    [velocity |-> base_velocity, pitch |-> pitch,
     start |-> spike_time, end |-> spike_time + note_duration]

ProgramOf(idx) == idx % ProgramCount

\* lines 149-180: one iteration of the loop over the rows
ProcessUnit ==
    /\ m_pc = "loop"
    /\ Len(pm) < Len(df)
    /\ LET idx == Len(pm)
           row == df[idx + 1]
           unit_id == row.unit_id
           spike_times == parse_spike_times(row.spike_times)
           spike_times_scaled ==
               [i \in 1 .. Len(spike_times) |-> ScaleTime(spike_times[i], cfg.time_scale)]
           r == get_pitch_for_unit(idx, unit_id, spike_times, cfg.pitch_mode, rng)
           program == ProgramOf(idx)
           notes == [i \in 1 .. Len(spike_times_scaled) |->
                        MakeNote(cfg.base_velocity, r.pitch, spike_times_scaled[i],
                                 cfg.note_duration)]
           instrument == [program |-> program, name |-> unit_id, notes |-> notes]
       IN /\ pm' = Append(pm, instrument)
          /\ out' = Append(out, [idx |-> idx, unit_id |-> unit_id,
                                 spikes |-> Len(spike_times), pitch |-> r.pitch,
                                 program |-> program])
          /\ rng' = r.rng
    /\ UNCHANGED <<m_pc, parquet, cfg, df, midi_file, m_result, call, seen, wavVars>>

AllNotes(doc) ==
    {n \in UNION {{doc[i].notes[j] : j \in 1 .. Len(doc[i].notes)} : i \in 1 .. Len(doc)} : TRUE}

\* pm.write: the MIDI writer rejects data bytes outside 0..127
Writable(doc) ==
    \A n \in AllNotes(doc) : n.pitch \in 0 .. MidiDataMax /\ n.velocity \in 0 .. MidiDataMax

\* lines 182-197: write the file, print the summary, return the document.
\* max() of the empty list of note ends raises ValueError.
FinishConversion ==
    /\ m_pc = "loop"
    /\ Len(pm) = Len(df)
    /\ m_pc' = "done"
    /\ IF ~Writable(pm)
       THEN /\ m_result' = "ValueError"
            /\ UNCHANGED midi_file
       ELSE /\ midi_file' = <<pm>>
            /\ m_result' = IF AllNotes(pm) = {} THEN "ValueError" ELSE "returned"
    /\ UNCHANGED <<parquet, cfg, df, pm, out, pitchVars, wavVars>>

NextMidi == StartConversion \/ ProcessUnit \/ FinishConversion

SpecMidi == InitMidi /\ [][NextMidi]_vars

(***************************************************************************)
(* The renderers: midi_to_wav and midi_to_wav_suyee                        *)
(***************************************************************************)
MaxSamples == 3
SampleVals == {-2, -1, 0, 1, 2}
FullScale == 32767
Int16Min == -32768

\* the sample arrays a synthesizer can return (float amplitudes)
Audios == UNION {[1 .. n -> SampleVals] : n \in 0 .. MaxSamples}

\* the errors a synthesizer call can raise, with their base classes
ExcBases ==
    ("ImportError" :> {"ImportError", "Exception", "BaseException"}) @@
    ("OSError" :> {"OSError", "Exception", "BaseException"}) @@
    ("ValueError" :> {"ValueError", "Exception", "BaseException"})

SynthErrors == DOMAIN ExcBases

\* except (ImportError, OSError, Exception)
HandlerClasses == {"ImportError", "OSError", "Exception"}

\* faulty variant of the handlers: except (ImportError, OSError) only
CatchesNarrow(exc) == ExcBases[exc] \cap {"ImportError", "OSError"} # {}

Catches(exc) == ExcBases[exc] \cap HandlerClasses # {}

InitWav ==
    /\ rng = 0
    /\ IdlePitch
    /\ IdleMidi
    /\ variant \in {"midi_to_wav", "midi_to_wav_suyee"}
    /\ w_pc = IF variant = "midi_to_wav" THEN "fluidsynth" ELSE "fs_custom"
    /\ pcm = <<>>
    /\ calls = <<>>
    /\ audio_data = <<>>
    /\ warned = FALSE
    /\ wav_file = <<>>
    /\ w_exc = "none"

SynthOk(name, a, next) ==
    /\ calls' = Append(calls, [synth |-> name, outcome |-> "ok"])
    /\ pcm' = a
    /\ audio_data' = a
    /\ w_pc' = next
    /\ UNCHANGED w_exc

\* the call raises exc; the handler around it, when there is one and it
\* catches exc, continues at next
SynthRaises(name, exc, handled, next) ==
    /\ calls' = Append(calls, [synth |-> name, outcome |-> exc])
    /\ IF handled /\ Catches(exc)
       THEN w_pc' = next /\ UNCHANGED w_exc
       ELSE w_pc' = "done" /\ w_exc' = exc
    /\ UNCHANGED <<pcm, audio_data>>

\* midi_to_wav_suyee lines 35-40: fluidsynth with ./CindyBells.sf2
FluidsynthCustom ==
    /\ variant = "midi_to_wav_suyee"
    /\ w_pc = "fs_custom"
    /\ \/ \E a \in Audios : SynthOk("fluidsynth_sf2", a, "normalize")
       \/ \E e \in SynthErrors : SynthRaises("fluidsynth_sf2", e, TRUE, "fs_default")
    /\ UNCHANGED <<variant, warned, wav_file, pitchVars, midiVars>>

\* midi_to_wav_suyee lines 41-47: fluidsynth with the default soundfont
FluidsynthDefault ==
    /\ variant = "midi_to_wav_suyee"
    /\ w_pc = "fs_default"
    /\ \/ \E a \in Audios : SynthOk("fluidsynth", a, "normalize")
       \/ \E e \in SynthErrors : SynthRaises("fluidsynth", e, TRUE, "builtin")
    /\ UNCHANGED <<variant, warned, wav_file, pitchVars, midiVars>>

\* midi_to_wav_suyee line 48: the built-in synthesizer, no handler around it
Synthesize ==
    /\ variant = "midi_to_wav_suyee"
    /\ w_pc = "builtin"
    /\ \/ \E a \in Audios : SynthOk("synthesize", a, "normalize")
       \/ \E e \in SynthErrors : SynthRaises("synthesize", e, FALSE, "done")
    /\ UNCHANGED <<variant, warned, wav_file, pitchVars, midiVars>>

\* midi_to_wav line 33: fluidsynth, no handler around it
Fluidsynth ==
    /\ variant = "midi_to_wav"
    /\ w_pc = "fluidsynth"
    /\ \/ \E a \in Audios : SynthOk("fluidsynth", a, "normalize")
       \/ \E e \in SynthErrors : SynthRaises("fluidsynth", e, FALSE, "done")
    /\ UNCHANGED <<variant, warned, wav_file, pitchVars, midiVars>>

\* np.max(np.abs(a)) of a non-empty array
Peak(a) == CHOOSE m \in {Abs(a[i]) : i \in 1 .. Len(a)} :
               \A j \in 1 .. Len(a) : Abs(a[j]) <= m

\* a / np.max(np.abs(a)): every sample as the fraction num/den; den = 0 is
\* the NaN that 0.0/0.0 gives
PeakNormalize(a) == [i \in 1 .. Len(a) |-> [num |-> a[i], den |-> Peak(a)]]

\* midi_to_wav_suyee lines 50-55
NormalizeGuarded ==
    /\ variant = "midi_to_wav_suyee"
    /\ w_pc = "normalize"
    /\ IF Len(audio_data) > 0
       THEN /\ audio_data' = PeakNormalize(audio_data)
            /\ w_pc' = "quantize"
            /\ UNCHANGED warned
       ELSE /\ warned' = TRUE
            /\ w_pc' = "done"
            /\ UNCHANGED audio_data
    /\ UNCHANGED <<variant, pcm, calls, wav_file, w_exc, pitchVars, midiVars>>

\* midi_to_wav line 36: np.max of an empty array raises ValueError
NormalizeUnguarded ==
    /\ variant = "midi_to_wav"
    /\ w_pc = "normalize"
    /\ IF Len(audio_data) > 0
       THEN /\ audio_data' = PeakNormalize(audio_data)
            /\ w_pc' = "quantize"
            /\ UNCHANGED w_exc
       ELSE /\ w_exc' = "ValueError"
            /\ w_pc' = "done"
            /\ UNCHANGED audio_data
    /\ UNCHANGED <<variant, pcm, calls, warned, wav_file, pitchVars, midiVars>>

\* what the cast of NaN to int16 can give
NaNCast == {0, Int16Min}

\* faulty variant of the quantization: scale 32768 instead of 32767
QuantizeScale32768(x) ==
    IF x.den = 0 THEN {0, -32768} ELSE {Trunc(x.num * 32768, x.den)}

\* (x * 32767).astype(np.int16) of one normalized sample: the values possible
Quantize(x) ==
    IF x.den = 0 THEN NaNCast ELSE {Trunc(x.num * FullScale, x.den)}

QuantizeAll(a) ==
    {w \in [1 .. Len(a) -> UNION {Quantize(a[i]) : i \in 1 .. Len(a)}] :
        \A i \in 1 .. Len(a) : w[i] \in Quantize(a[i])}

\* lines 57-61 (midi_to_wav: 38-42): convert to 16-bit PCM and write
QuantizeAndWrite ==
    /\ w_pc = "quantize"
    /\ \E w \in QuantizeAll(audio_data) :
        /\ audio_data' = w
        /\ wav_file' = <<w>>
    /\ w_pc' = "done"
    /\ UNCHANGED <<variant, pcm, calls, warned, w_exc, pitchVars, midiVars>>

NextWav ==
    \/ FluidsynthCustom
    \/ FluidsynthDefault
    \/ Synthesize
    \/ Fluidsynth
    \/ NormalizeGuarded
    \/ NormalizeUnguarded
    \/ QuantizeAndWrite

SpecWav == InitWav /\ [][NextWav]_vars

(***************************************************************************)
(* Properties of get_pitch_for_unit (SpecPitch)                            *)
(***************************************************************************)

\* C1: in every mode, for every index >= 0, every unit identifier and every
\* spike sequence, get_pitch_for_unit returns a pitch p with 0 <= p <= 127.
C1_PitchIsMidiPitch ==
    call.mode # "none" => call.pitch \in 0 .. MidiDataMax

\* C7: random mode is deterministic: all calls in random mode with the same
\* unit identifier return the same pitch, whatever the index, the spike
\* sequence and the calls made in between, and the pitch lies in
\* [min_pitch, max_pitch].
C7_RandomDeterministic ==
    \A u \in UnitIds :
        /\ Cardinality(seen[u]) <= 1
        /\ seen[u] \subseteq MinPitch .. MaxPitch

\* C7 witness: a unit is asked again in random mode, at another index and with
\* spikes, after another unit was asked in random mode.
C7_Witness ==
    /\ call.mode = "random"
    /\ call.again
    /\ call.unit_idx = MaxIdx
    /\ call.spike_times # <<>>
    /\ \E u \in UnitIds \ {call.unit_id} : seen[u] # {}

\* C10: a call in the modes custom, spread, octaves and random leaves the
\* process-wide state as it was: the shared generator's state after the call
\* equals its state before the call.
C10_PureModesKeepGenerator ==
    [][call'.mode \in {"custom", "spread", "octaves", "random"} => rng' = rng]_vars

(***************************************************************************)
(* Properties of create_midi_from_spikes (SpecMidi)                        *)
(***************************************************************************)
Min2(a, b) == IF a <= b THEN a ELSE b

\* the input table has n >= 1 units, each with the one spike at t = 1.0 s
OneSpikeEach == Len(parquet) >= 1 /\ \A i \in 1 .. Len(parquet) : parquet[i].spike_times = StrOne

\* the instrument has one note, at t = 1.0 s scaled, lasting note_duration
OneNoteAtT(inst) ==
    /\ Len(inst.notes) = 1
    /\ inst.notes[1].start = 1000000 * cfg.time_scale
    /\ inst.notes[1].end = inst.notes[1].start + cfg.note_duration

\* C4 as stated: for any N >= 1 units with one spike each at t, the document
\* returned has N instruments, each with exactly one note from t * time_scale
\* to start + note_duration.
C4_OneSpikeEachGivesN ==
    (m_result = "returned" /\ cfg.units_to_sonify.isNone /\ OneSpikeEach) =>
        /\ Len(pm) = Len(parquet)
        /\ \A k \in 1 .. Len(pm) : OneNoteAtT(pm[k])

\* every emitted instrument has one note per spike of its unit, in spike
\* order, with velocity base_velocity and the one pitch of the unit
NotesFollowSpikes ==
    \A k \in 1 .. Len(pm) :
        LET spikes == parse_spike_times(df[k].spike_times)
            notes == pm[k].notes
        IN /\ Len(notes) = Len(spikes)
           /\ \A j \in 1 .. Len(notes) :
                /\ notes[j].start = spikes[j] * cfg.time_scale
                /\ notes[j].end = notes[j].start + cfg.note_duration
                /\ notes[j].velocity = cfg.base_velocity
                /\ notes[j].pitch = out[k].pitch

\* C4 amended: with all units selected, the document returned for N >= 1 units
\* with one spike each at t has min(N, max_units) instruments, each with
\* exactly one note from t * time_scale to start + note_duration; and every
\* emitted instrument has one note per spike of its unit, in spike order, with
\* velocity base_velocity and the unit's single pitch.
C4_OneSpikeEachGivesMin ==
    /\ (m_result = "returned" /\ cfg.units_to_sonify.isNone /\ OneSpikeEach) =>
          /\ Len(pm) = Min2(Len(parquet), cfg.max_units)
          /\ \A k \in 1 .. Len(pm) : OneNoteAtT(pm[k])
    /\ NotesFollowSpikes

\* C4 witness: a returned document for more one-spike units than max_units,
\* at time_scale 0.1
C4_Witness ==
    /\ m_result = "returned"
    /\ cfg.units_to_sonify.isNone
    /\ OneSpikeEach
    /\ Len(parquet) > cfg.max_units
    /\ cfg.max_units > 1
    /\ cfg.time_scale = 1
    /\ Len(pm) = cfg.max_units

\* C5: in spread mode the pitch of every index i in [0, max_units - 1], with
\* max_units the setting of the run, is non-decreasing in i and lies within
\* [min_pitch, max_pitch].
C5_SpreadMonotoneInRange ==
    cfg.pitch_mode = "spread" =>
        \A k \in 1 .. Len(out) :
            out[k].idx <= cfg.max_units - 1 =>
                /\ out[k].pitch \in MinPitch .. MaxPitch
                /\ k > 1 => out[k - 1].pitch <= out[k].pitch

\* the rows the run processes: those selected by units_to_sonify, cut to the
\* first max_units
ProcessedUnits ==
    LET sel == cfg.units_to_sonify
        picked == IF sel.isNone THEN parquet
                  ELSE [i \in 1 .. Len(sel.rows) |-> parquet[sel.rows[i] + 1]]
    IN [i \in 1 .. Min2(Len(picked), cfg.max_units) |-> picked[i]]

\* C6: for every input table the function returns a document whose k-th
\* instrument has program k mod 128 and the name of the k-th processed unit,
\* units without spikes included (also when every processed unit is empty).
C6_ReturnsInstrumentPerUnit ==
    m_pc = "done" =>
        /\ m_result = "returned"
        /\ Len(pm) = Len(ProcessedUnits)
        /\ \A k \in 1 .. Len(pm) :
              /\ pm[k].program = (k - 1) % 128
              /\ pm[k].name = ProcessedUnits[k].unit_id

\* C8: in firing_rate mode the pitch of a unit is the default pitch when it
\* has no spike; min_pitch when its spikes span no time; otherwise
\* min_pitch + min(rate/50, 1) * (max_pitch - min_pitch) truncated, with
\* rate = count / (last - first) of the unscaled spike times; always within
\* [min_pitch, max_pitch] unless the unit is empty.
C8_FiringRatePitch ==
    cfg.pitch_mode = "firing_rate" =>
        \A k \in 1 .. Len(out) :
            LET st == parse_spike_times(df[k].spike_times)
                n == Len(st)
                p == out[k].pitch
                above == p - MinPitch
                span == MaxPitch - MinPitch
            IN IF n = 0 THEN p = DEFAULT_PITCH
               ELSE LET d == st[n] - st[1]
                    IN /\ p \in MinPitch .. MaxPitch
                       /\ d <= 0 => p = MinPitch
                       /\ (d > 0 /\ n * 1000000 >= 50 * d) => p = MaxPitch
                       /\ (d > 0 /\ n * 1000000 < 50 * d) =>
                             /\ above * 50 * d <= n * 1000000 * span
                             /\ n * 1000000 * span < (above + 1) * 50 * d

\* C8 witness: a run at time_scale 0.1 that gave an empty unit the default
\* pitch, a one-spike unit min_pitch, a fast unit max_pitch and a unit
\* firing at 42.67 Hz the pitch 78
C8_Witness ==
    /\ cfg.pitch_mode = "firing_rate"
    /\ cfg.time_scale = 1
    /\ Len(out) >= 6
    /\ df[1].spike_times = StrEmpty /\ out[1].pitch = 60
    /\ df[2].spike_times = StrOne /\ out[2].pitch = 48
    /\ df[3].spike_times = StrTwo /\ out[3].pitch = 49
    /\ df[4].spike_times = StrSame /\ out[4].pitch = 48
    /\ df[5].spike_times = StrFast /\ out[5].pitch = 84
    /\ df[6].spike_times = StrMid /\ out[6].pitch = 78

(***************************************************************************)
(* Properties of the renderers (SpecWav)                                   *)
(***************************************************************************)
FallbackOrder == <<"fluidsynth_sf2", "fluidsynth", "synthesize">>

\* C2: midi_to_wav_suyee tries fluidsynth with the soundfont, fluidsynth with
\* the default soundfont and the built-in synthesizer in this order; nothing
\* is called after a success; a failure of the first or second is caught and
\* the next one is tried; after two failures the built-in synthesizer is
\* called exactly once.
C2_FallbackChain ==
    variant = "midi_to_wav_suyee" =>
        /\ Len(calls) <= 3
        /\ \A i \in 1 .. Len(calls) : calls[i].synth = FallbackOrder[i]
        /\ \A i \in 1 .. Len(calls) - 1 : calls[i].outcome # "ok"
        /\ (Len(calls) = 1 /\ calls[1].outcome # "ok") => w_pc = "fs_default" /\ w_exc = "none"
        /\ (Len(calls) = 2 /\ calls[2].outcome # "ok") => w_pc = "builtin" /\ w_exc = "none"
        /\ (Len(calls) >= 1 /\ calls[Len(calls)].outcome = "ok") => w_pc # "builtin" /\ w_pc # "fs_default"
        /\ w_exc # "none" => Len(calls) = 3 /\ calls[3].outcome = w_exc
        /\ (w_pc = "done" /\ Len(calls) >= 2 /\ calls[1].outcome # "ok" /\ calls[2].outcome # "ok") =>
              Cardinality({i \in 1 .. Len(calls) : calls[i].synth = "synthesize"}) = 1

\* C2 witness: both fluidsynth calls raised, for different causes, and the
\* built-in synthesizer supplied the audio that was written
C2_Witness ==
    /\ variant = "midi_to_wav_suyee"
    /\ w_pc = "done"
    /\ Len(calls) = 3
    /\ calls[1].outcome = "ValueError"
    /\ calls[2].outcome = "ImportError"
    /\ calls[3].outcome = "ok"
    /\ wav_file # <<>>

\* the last synthesizer call succeeded
Synthesized == calls # <<>> /\ calls[Len(calls)].outcome = "ok"

\* C3: whenever synthesis yields an empty sample sequence the renderer warns
\* and stops normally, without an exception and without writing a file.
C3_EmptyAudioWarnsNoFile ==
    (w_pc = "done" /\ Synthesized /\ pcm = <<>>) =>
        /\ warned
        /\ w_exc = "none"
        /\ wav_file = <<>>

\* C9 as stated: for every non-empty synthesized sequence, the silent one
\* included, every written sample lies in [-32767, 32767] and the largest
\* absolute written value is 32767.
C9_WrittenFullScale ==
    wav_file # <<>> =>
        LET w == wav_file[1]
        IN /\ \A i \in 1 .. Len(w) : w[i] \in -32767 .. 32767
           /\ \E i \in 1 .. Len(w) : Abs(w[i]) = 32767

\* C9 amended: for every non-empty synthesized sequence with a non-zero
\* sample, every written sample is the sample divided by the largest absolute
\* value, times 32767, truncated: it lies in [-32767, 32767] and the largest
\* absolute written value is 32767.  For a non-empty silent sequence the
\* division is 0/0 and no written sample has the absolute value 32767.
C9_WrittenFullScaleUnlessSilent ==
    wav_file # <<>> =>
        LET w == wav_file[1]
            silent == \A i \in 1 .. Len(pcm) : pcm[i] = 0
        IN /\ Len(pcm) > 0
           /\ Len(w) = Len(pcm)
           /\ ~silent =>
                /\ \A i \in 1 .. Len(w) : w[i] \in -32767 .. 32767
                /\ \E i \in 1 .. Len(w) : Abs(w[i]) = 32767
                /\ \A i \in 1 .. Len(w) : \A j \in 1 .. Len(pcm) :
                      /\ w[i] * pcm[i] >= 0
                      /\ (Abs(pcm[j]) >= Abs(pcm[i]) /\ \A l \in 1 .. Len(pcm) : Abs(pcm[l]) <= Abs(pcm[j])) =>
                            /\ Abs(w[i]) * Abs(pcm[j]) <= Abs(pcm[i]) * 32767
                            /\ Abs(pcm[i]) * 32767 < (Abs(w[i]) + 1) * Abs(pcm[j])
           /\ silent => \A i \in 1 .. Len(w) : Abs(w[i]) # 32767

\* C9 witness: a written file for samples with a negative peak and a sample
\* whose quantization truncates
C9_Witness ==
    /\ wav_file = << <<16383, -32767, 0>> >>
    /\ pcm = <<1, -2, 0>>

=============================================================================
